---- MODULE Spec2Model ----
(***************************************************************************)
(* Return-type inference of coloco (src/src/coloco/inference.py).          *)
(*                                                                         *)
(* Strings that the code takes apart (function names, dict keys, class     *)
(* names) are sequences of one-character strings.  A type object is a      *)
(* record of one fixed shape; Python compares classes built by TypedDict   *)
(* by identity, so a Record carries the identity of the class object in    *)
(* its id field and two Records are equal only when they are the same      *)
(* object.                                                                 *)
(***************************************************************************)
EXTENDS Integers, Sequences, FiniteSets

(***************************************************************************)
(* Bounds of the model.                                                    *)
(***************************************************************************)
MaxCalls == 2
MaxEntries == 2
MaxStmts == 3

(***************************************************************************)
(* Characters and the string helpers.                                      *)
(***************************************************************************)
Upper(c) == CASE c = "a" -> "A" [] c = "b" -> "B" [] OTHER -> c

Lower(c) == CASE c = "A" -> "a" [] c = "B" -> "b" [] OTHER -> c

IsAlnum(c) == c \notin {"_", "-"}

\* faulty variant: the words are joined as they are
CapitalizeSkipped(w) == w

Capitalize(w) ==
    IF w = <<>> THEN <<>>
    ELSE <<Upper(w[1])>> \o [i \in 1..(Len(w) - 1) |-> Lower(w[i + 1])]

RECURSIVE SplitUnderscore(_)
SplitUnderscore(s) ==
    IF \A i \in 1..Len(s) : s[i] # "_" THEN <<s>>
    ELSE LET i == CHOOSE j \in 1..Len(s) :
                      s[j] = "_" /\ \A k \in 1..(j - 1) : s[k] # "_"
         IN  <<SubSeq(s, 1, i - 1)>> \o SplitUnderscore(SubSeq(s, i + 1, Len(s)))

RECURSIVE JoinAll(_)
JoinAll(ws) == IF ws = <<>> THEN <<>> ELSE Head(ws) \o JoinAll(Tail(ws))

SnakeCaseToCapitalCase(name) ==
    LET ws == SplitUnderscore(name)
    IN  JoinAll([i \in 1..Len(ws) |-> Capitalize(ws[i])])

SanitizeName(name) == SelectSeq(name, IsAlnum)

(***************************************************************************)
(* Type objects.                                                           *)
(***************************************************************************)
T0 == [tag |-> "", prim |-> "", name |-> <<>>, keys |-> <<>>, args |-> <<>>,
       members |-> {}, id |-> <<>>]

Any == [T0 EXCEPT !.tag = "Any"]

Prim(p) == [T0 EXCEPT !.tag = "Prim", !.prim = p]

Generic(tag, args) == [T0 EXCEPT !.tag = tag, !.args = args]

ModuleClass(n) == [T0 EXCEPT !.tag = "Class", !.prim = n]

\* TypedDict(class_name, field_types): a new class object on every call
TypedDict(name, keys, args, id) ==
    [T0 EXCEPT !.tag = "Record", !.name = name, !.keys = keys, !.args = args,
               !.id = id]

\* typing.Union[tuple(set(ts))] and X | Y: nested unions are flattened, equal
\* members are merged, a single member is returned as itself
MkUnion(S) ==
    LET flat == UNION {IF t.tag = "Union" THEN t.members ELSE {t} : t \in S}
    IN  IF Cardinality(flat) = 1 THEN CHOOSE t \in flat : TRUE
        ELSE [T0 EXCEPT !.tag = "Union", !.members = flat]

Range(s) == {s[i] : i \in 1..Len(s)}

(***************************************************************************)
(* Syntax trees: expressions, annotations and statements.                  *)
(***************************************************************************)
E0 == [kind |-> "", vtype |-> "", id |-> "", str |-> <<>>, op |-> "",
       keys |-> <<>>, elts |-> <<>>]

Const(t) == [E0 EXCEPT !.kind = "Constant", !.vtype = t]
StrConst(s) == [E0 EXCEPT !.kind = "Constant", !.vtype = "str", !.str = s]
Name(n) == [E0 EXCEPT !.kind = "Name", !.id = n]
NoKey == [E0 EXCEPT !.kind = "None"]
DictE(ks, vs) == [E0 EXCEPT !.kind = "Dict", !.keys = ks, !.elts = vs]
ListE(es) == [E0 EXCEPT !.kind = "List", !.elts = es]
TupleE(es) == [E0 EXCEPT !.kind = "Tuple", !.elts = es]
SetE(es) == [E0 EXCEPT !.kind = "Set", !.elts = es]
CallE(f) == [E0 EXCEPT !.kind = "Call", !.elts = <<f>>]
BinOp(op, l, r) == [E0 EXCEPT !.kind = "BinOp", !.op = op, !.elts = <<l, r>>]
Compare(l, r) == [E0 EXCEPT !.kind = "Compare", !.elts = <<l, r>>]
IfExp(b, o) == [E0 EXCEPT !.kind = "IfExp", !.elts = <<b, o>>]
OtherE == [E0 EXCEPT !.kind = "Attribute"]

\* annotations: a Name, a Subscript of a Name by a slice, a Tuple (as a slice),
\* and every other shape
A0 == [kind |-> "", id |-> "", elts |-> <<>>]
AName(n) == [A0 EXCEPT !.kind = "Name", !.id = n]
ASub(base, slice) == [A0 EXCEPT !.kind = "Subscript", !.id = base, !.elts = <<slice>>]
ATuple(es) == [A0 EXCEPT !.kind = "Tuple", !.elts = es]
AOther == [A0 EXCEPT !.kind = "Attribute"]
NoAnn == [A0 EXCEPT !.kind = "None"]

\* statements: Assign (Name targets), AnnAssign (Name target), Return (value
\* None for a bare return), and If/For/While/With as a block with a body
S0 == [kind |-> "", targets |-> <<>>, value |-> NoKey, annotation |-> NoAnn,
       body |-> <<>>]
Assign(t, v) == [S0 EXCEPT !.kind = "Assign", !.targets = <<t>>, !.value = v]
AnnAssign(t, a) == [S0 EXCEPT !.kind = "AnnAssign", !.targets = <<t>>,
                              !.annotation = a]
Return(v) == [S0 EXCEPT !.kind = "Return", !.value = v]
Block(b) == [S0 EXCEPT !.kind = "If", !.body = b]
Pass == [S0 EXCEPT !.kind = "Pass"]

\* dicts: __annotations__ and the symbol table
EmptyDict == [k \in {} |-> Any]
DictSet(d, key, v) == [k \in DOMAIN d \cup {key} |-> IF k = key THEN v ELSE d[k]]

\* the names bound in builtins that are types, and the ones that are not
BuiltinTypes == {"int", "str", "float", "bool"}
BuiltinOthers == {"len"}

\* the declaring module: one class Foo, no further callables
ModuleClasses == {"Foo"}

GetModuleType(n) == IF n \in ModuleClasses THEN ModuleClass(n) ELSE Any

Builtin(n) == IF n \in BuiltinTypes THEN Prim(n)
              ELSE [T0 EXCEPT !.tag = "Builtin", !.prim = n]

(***************************************************************************)
(* _resolve_annotation                                                     *)
(***************************************************************************)
RECURSIVE ResolveAnnotation(_)
ResolveAnnotation(a) ==
    IF a.kind = "Name" THEN
        IF a.id \in BuiltinTypes \cup BuiltinOthers THEN Builtin(a.id)
        ELSE GetModuleType(a.id)
    ELSE IF a.kind = "Subscript" THEN
        LET slice == a.elts[1]
            elems == [i \in 1..Len(slice.elts) |-> ResolveAnnotation(slice.elts[i])]
        IN  CASE a.id \in {"List", "list"} ->
                   Generic("list", <<ResolveAnnotation(slice)>>)
              [] a.id \in {"Dict", "dict"} ->
                   IF slice.kind = "Tuple"
                   THEN Generic("dict", <<elems[1], elems[2]>>)
                   ELSE Generic("Dict", <<>>)
              [] a.id \in {"Set", "set"} ->
                   Generic("set", <<ResolveAnnotation(slice)>>)
              [] a.id \in {"Tuple", "tuple"} ->
                   IF slice.kind = "Tuple" THEN Generic("tuple", elems)
                   ELSE Generic("Tuple", <<>>)
              [] a.id = "Optional" ->
                   MkUnion({ResolveAnnotation(slice), Prim("NoneType")})
              [] a.id = "Union" ->
                   IF slice.kind = "Tuple" THEN MkUnion(Range(elems))
                   ELSE Generic("UnionForm", <<>>)
              [] OTHER -> Any
    ELSE Any

(***************************************************************************)
(* _infer_expr_type and _create_typed_dict_from_dict.  site is the         *)
(* identity of the evaluation: the call of get_return_type followed by the *)
(* position of the node in the function, so that every TypedDict call      *)
(* that survives in a result makes its own class object.                   *)
(***************************************************************************)
IsStrKey(k) == k.kind = "Constant" /\ k.vtype = "str"

\* the keys of field_types in insertion order: a repeated key keeps its
\* first position
RECURSIVE FieldKeys(_)
FieldKeys(ks) ==
    IF ks = <<>> THEN <<>>
    ELSE LET front == FieldKeys(SubSeq(ks, 1, Len(ks) - 1))
             k == ks[Len(ks)].str
         IN  IF k \in Range(front) THEN front ELSE Append(front, k)

\* the index whose value field_types[k] holds: the last assignment wins
LastIndex(ks, k) ==
    CHOOSE i \in 1..Len(ks) :
        ks[i].str = k /\ \A j \in (i + 1)..Len(ks) : ks[j].str # k

ReturnSuffix == <<"R", "e", "t", "u", "r", "n">>

RECURSIVE PathSuffix(_)
PathSuffix(path) ==
    IF path = <<>> THEN <<>>
    ELSE SnakeCaseToCapitalCase(SanitizeName(Head(path))) \o PathSuffix(Tail(path))

\* faulty variant: the nested path is left out of the name
ClassNameWithoutPath(fname, nested_path) ==
    SnakeCaseToCapitalCase(fname) \o ReturnSuffix

ClassName(fname, nested_path) ==
    SnakeCaseToCapitalCase(fname) \o ReturnSuffix \o PathSuffix(nested_path)

\* list[...] and set[...] of the element types
ElementType(ts) ==
    IF Cardinality(Range(ts)) = 1 THEN ts[1] ELSE MkUnion(Range(ts))

ArithmeticOps == {"Add", "Sub", "Mult", "Div"}

\* faulty variant: the string test is made for every operator
BinOpTypeStrFirst(op, left_type, right_type) ==
    IF left_type = Prim("str") \/ right_type = Prim("str")
    THEN Prim("str")
    ELSE IF op \in ArithmeticOps
    THEN IF left_type = Prim("float") \/ right_type = Prim("float")
         THEN Prim("float") ELSE Prim("int")
    ELSE Any

BinOpType(op, left_type, right_type) ==
    IF op = "Add" /\ (left_type = Prim("str") \/ right_type = Prim("str"))
    THEN Prim("str")
    ELSE IF op \in ArithmeticOps
    THEN IF left_type = Prim("float") \/ right_type = Prim("float")
         THEN Prim("float") ELSE Prim("int")
    ELSE Any

CallType(f) ==
    IF f.kind = "Name" THEN
        CASE f.id \in {"int", "str", "float"} -> Prim(f.id)
          [] f.id = "list" -> Generic("list", <<Any>>)
          [] f.id = "dict" -> Generic("dict", <<Any, Any>>)
          [] f.id = "set" -> Generic("set", <<Any>>)
          [] f.id = "tuple" -> Generic("Tuple", <<>>)
          [] OTHER -> GetModuleType(f.id)
    ELSE Any

RECURSIVE InferExprType(_, _, _, _, _)
RECURSIVE CreateTypedDictFromDict(_, _, _, _, _)

InferExprType(node, symbol_table, fname, nested_path, site) ==
    LET sub(i) == InferExprType(node.elts[i], symbol_table, fname, nested_path,
                                Append(site, i))
        element_types == [i \in 1..Len(node.elts) |-> sub(i)]
    IN  CASE node.kind = "Dict" ->
               CreateTypedDictFromDict(node, symbol_table, fname, nested_path, site)
          [] node.kind = "List" ->
               IF node.elts = <<>> THEN Generic("list", <<Any>>)
               ELSE Generic("list", <<ElementType(element_types)>>)
          [] node.kind = "Tuple" -> Generic("tuple", element_types)
          [] node.kind = "Set" ->
               IF node.elts = <<>> THEN Generic("set", <<Any>>)
               ELSE Generic("set", <<ElementType(element_types)>>)
          [] node.kind = "Constant" -> Prim(node.vtype)
          [] node.kind = "Name" ->
               IF node.id \in DOMAIN symbol_table THEN symbol_table[node.id]
               ELSE IF node.id \in BuiltinTypes THEN Builtin(node.id)
               ELSE GetModuleType(node.id)
          [] node.kind = "Call" -> CallType(node.elts[1])
          [] node.kind = "BinOp" -> BinOpType(node.op, sub(1), sub(2))
          [] node.kind = "Compare" -> Prim("bool")
          [] node.kind = "IfExp" -> MkUnion({sub(1), sub(2)})
          [] OTHER -> Any

CreateTypedDictFromDict(dict_node, symbol_table, fname, nested_path, site) ==
    LET keys == dict_node.keys
        n == Len(keys)
        is_valid_typeddict == \A i \in 1..n : IsStrKey(keys[i])
        field_keys == FieldKeys(keys)
        field_value(k) ==
            LET i == LastIndex(keys, k)
            IN  InferExprType(dict_node.elts[i], symbol_table, fname,
                              Append(nested_path, k), Append(site, i))
        \* the keys here are constants, names and None (an unpacked dict): their
        \* types do not read the path
        key_types == [i \in 1..n |->
                        InferExprType(keys[i], symbol_table, fname, nested_path,
                                      Append(Append(site, 0), i))]
        value_types == [i \in 1..n |->
                          InferExprType(dict_node.elts[i], symbol_table, fname,
                                        nested_path, Append(site, i))]
    IN  IF is_valid_typeddict /\ n > 0
        THEN TypedDict(ClassName(fname, nested_path), field_keys,
                       [j \in 1..Len(field_keys) |-> field_value(field_keys[j])],
                       site)
        ELSE IF n > 0
        THEN Generic("dict", <<ElementType(key_types), ElementType(value_types)>>)
        ELSE Generic("dict", <<Any, Any>>)

(***************************************************************************)
(* ast.walk: breadth first, a queue of nodes that is extended by the       *)
(* children of the node taken from its front.  Only statements are kept,   *)
(* each with its position in the function.                                 *)
(***************************************************************************)
Children(h) ==
    [i \in 1..Len(h.node.body) |->
        [node |-> h.node.body[i], path |-> Append(h.path, i)]]

RECURSIVE WalkQueue(_)
WalkQueue(todo) ==
    IF todo = <<>> THEN <<>>
    ELSE <<Head(todo)>> \o WalkQueue(Tail(todo) \o Children(Head(todo)))

AstWalk(func_def) ==
    WalkQueue([i \in 1..Len(func_def.body) |->
                  [node |-> func_def.body[i], path |-> <<i>>]])

(***************************************************************************)
(* _analyze_function_body                                                  *)
(***************************************************************************)
RECURSIVE SeedParameters(_, _)
SeedParameters(args, symbol_table) ==
    IF args = <<>> THEN symbol_table
    ELSE LET a == Head(args)
         IN  SeedParameters(Tail(args),
                 IF a.annotation.kind # "None"
                 THEN DictSet(symbol_table, a.arg, ResolveAnnotation(a.annotation))
                 ELSE symbol_table)

RECURSIVE AssignTargets(_, _, _)
AssignTargets(targets, symbol_table, t) ==
    IF targets = <<>> THEN symbol_table
    ELSE AssignTargets(Tail(targets), DictSet(symbol_table, Head(targets), t), t)

RECURSIVE AnalyzeNodes(_, _, _, _)
AnalyzeNodes(nodes, symbol_table, fname, call) ==
    IF nodes = <<>> THEN symbol_table
    ELSE LET h == Head(nodes)
             next ==
                 IF h.node.kind = "Assign"
                 THEN AssignTargets(h.node.targets, symbol_table,
                          InferExprType(h.node.value, symbol_table, fname, <<>>,
                                        <<call>> \o h.path))
                 ELSE IF h.node.kind = "AnnAssign"
                 THEN DictSet(symbol_table, h.node.targets[1],
                              ResolveAnnotation(h.node.annotation))
                 ELSE symbol_table
         IN  AnalyzeNodes(Tail(nodes), next, fname, call)

AnalyzeFunctionBody(func_def, call) ==
    AnalyzeNodes(AstWalk(func_def), SeedParameters(func_def.args, EmptyDict),
                 func_def.name, call)

(***************************************************************************)
(* get_return_type                                                         *)
(***************************************************************************)
\* faulty variant: the test of line 54 is skipped
HasReturnAnnotationSkipped(ann) == FALSE

HasReturnAnnotation(ann) == "return" \in DOMAIN ann

IsReturnWithValue(h) == h.node.kind = "Return" /\ h.node.value.kind # "None"

ReturnTypes(func_def, symbol_table, call) ==
    LET rets == SelectSeq(AstWalk(func_def), IsReturnWithValue)
    IN  [i \in 1..Len(rets) |->
            InferExprType(rets[i].node.value, symbol_table, func_def.name, <<>>,
                          <<call>> \o rets[i].path)]

CombineReturnTypes(return_types) ==
    IF return_types # <<>>
    THEN IF Len(return_types) = 1 THEN return_types[1]
         ELSE MkUnion(Range(return_types))
    ELSE Any

R0 == [status |-> "none", value |-> Any, error |-> "", analysed |-> FALSE,
       symbol_table |-> EmptyDict, return_types |-> <<>>]

Returned(t) == [R0 EXCEPT !.status = "ok", !.value = t]

Raised(e) == [R0 EXCEPT !.status = "raised", !.error = e]

\* lines 57-97: the call found no "return" in __annotations__
InferFromSource(f, call) ==
    IF f.source = "nosource" THEN Returned(Any)
    ELSE IF f.source = "unparseable" THEN Raised("SyntaxError")
    ELSE IF f.source = "notfunction" THEN Raised("ValueError")
    ELSE IF f.returns.kind # "None" THEN Returned(ResolveAnnotation(f.returns))
    ELSE LET symbols == AnalyzeFunctionBody(f, call)
             return_types == ReturnTypes(f, symbols, call)
         IN  [R0 EXCEPT !.status = "ok",
                        !.value = CombineReturnTypes(return_types),
                        !.analysed = TRUE,
                        !.symbol_table = symbols,
                        !.return_types = return_types]

GetReturnTypeOf(f, ann, call) ==
    IF HasReturnAnnotation(ann) THEN Returned(ann["return"])
    ELSE InferFromSource(f, call)

(***************************************************************************)
(* fill_inferred_type_hints                                                *)
(***************************************************************************)
\* line 346: not getattr(func, "__annotations__", None)
AnnotationsMissing(ann) == DOMAIN ann = {}

\* faulty variant: the slot is filled whether or not it is present
ReturnSlotAbsentAlways(ann) == TRUE

\* line 349: not "return" in func.__annotations__
ReturnSlotAbsent(ann) == "return" \notin DOMAIN ann

(***************************************************************************)
(* The functions under analysis.                                           *)
(***************************************************************************)
F0 == [name |-> <<"a", "b">>, source |-> "ok", returns |-> NoAnn, args |-> <<>>,
       body |-> <<>>, annotations |-> EmptyDict]

SeqsUpTo(S, n) == UNION {[1..k -> S] : k \in 0..n}

\* dict literals: keys that sanitize or capitalize to the same segment, a key
\* that is no string, and values that nest record literals under keys and
\* inside a list
Inner == DictE(<<StrConst(<<"b">>)>>, <<Const("int")>>)

DictKeys == {StrConst(<<"a">>), StrConst(<<"a", "_">>), StrConst(<<"A">>),
             Const("int")}

DictVals == {Const("int"), Inner, ListE(<<Inner, Inner>>)}

DictLiterals ==
    {DictE([i \in 1..Len(e) |-> e[i][1]], [i \in 1..Len(e) |-> e[i][2]]) :
        e \in SeqsUpTo(DictKeys \X DictVals, MaxEntries)}

\* binary operations
Operators == {"Add", "Sub", "Mult", "Div", "Mod", "FloorDiv", "Pow", "BitOr"}

Operands == {Const("int"), Const("float"), StrConst(<<"a">>), Name("y")}

BinOps == {BinOp(op, l, r) : op \in Operators, l \in Operands, r \in Operands}

\* the other expression shapes
OtherExprs ==
    {ListE(<<>>), ListE(<<Const("int"), Const("int")>>),
     ListE(<<Const("int"), StrConst(<<"a">>)>>), TupleE(<<>>),
     TupleE(<<Inner, Inner>>), SetE(<<>>), SetE(<<Const("int"), Const("float")>>),
     DictE(<<NoKey>>, <<Name("y")>>),
     DictE(<<Const("int"), StrConst(<<"a">>)>>, <<Inner, Const("int")>>),
     DictE(<<StrConst(<<"a">>), StrConst(<<"b">>)>>,
           <<Const("int"), StrConst(<<"a">>)>>),
     DictE(<<StrConst(<<"b">>), StrConst(<<"a">>), StrConst(<<"b">>)>>,
           <<Const("int"), Const("float"), StrConst(<<"a">>)>>),
     DictE(<<StrConst(<<"a">>), StrConst(<<"a", "b">>)>>,
           <<DictE(<<StrConst(<<"b">>)>>, <<Inner>>), Inner>>),
     DictE(<<StrConst(<<"a">>), StrConst(<<"b", "-", "1">>)>>,
           <<DictE(<<StrConst(<<"b">>)>>, <<Inner>>), SetE(<<Inner>>)>>),
     DictE(<<StrConst(<<"a", "1">>), StrConst(<<"a">>)>>,
           <<Inner, DictE(<<StrConst(<<"1">>)>>, <<Inner>>)>>),
     Const("NoneType"), Const("bool"), Name("int"), Name("len"), Name("Foo"),
     CallE(Name("int")), CallE(Name("list")), CallE(Name("dict")),
     CallE(Name("set")), CallE(Name("tuple")), CallE(Name("Foo")),
     CallE(OtherE), Compare(Const("int"), Const("int")),
     IfExp(Const("int"), Const("float")), IfExp(Const("int"), Const("int")),
     IfExp(Inner, Inner), OtherE}

\* one function per expression: def a_b(): return <expr>
ExprFunctions ==
    {[F0 EXCEPT !.name = <<"a", "_", "b">>, !.body = <<Return(e)>>] :
        e \in DictLiterals \cup BinOps \cup OtherExprs}

\* function bodies: assignments and returns, at the top level and in blocks
SimpleStmts ==
    {Assign("x", Const("int")), Assign("x", StrConst(<<"a">>)),
     Return(Name("x")), Return(Const("int")), Return(Inner), Return(NoKey)}

Stmts ==
    SimpleStmts \cup
    {Block(<<Assign("x", StrConst(<<"a">>))>>),
     Block(<<Block(<<Assign("x", Const("float"))>>), Return(Inner)>>)}

\* also annotated assignments, returns in blocks, and targets that are read
\* before they are assigned
MoreBodies ==
    {<<AnnAssign("x", AName("float")), Return(Name("x"))>>,
     <<Block(<<AnnAssign("x", ASub("list", AName("int")))>>),
       Assign("x", Const("int")), Block(<<Return(Name("x"))>>)>>,
     <<Assign("y", Name("x")), Assign("x", Const("int")), Return(Name("y"))>>,
     <<Block(<<Return(Name("x"))>>), Return(StrConst(<<"a">>))>>}

Bodies == SeqsUpTo(Stmts, MaxStmts) \cup MoreBodies

ArgLists == {<<>>, <<[arg |-> "x", annotation |-> AName("bool")],
                     [arg |-> "z", annotation |-> NoAnn]>>}

\* the parameters are varied for the shorter bodies
BodyFunctions ==
    {[F0 EXCEPT !.body = b] : b \in Bodies} \cup
    {[F0 EXCEPT !.body = b, !.args = a,
                !.annotations = SeedParameters(a, EmptyDict)] :
        b \in {c \in Bodies : Len(c) < MaxStmts}, a \in ArgLists}

\* return annotations, in the source and in __annotations__
Annotations ==
    {AName("int"), AName("str"), AName("Foo"), AName("Bar"),
     ASub("list", AName("int")), ASub("List", ATuple(<<AName("int"), AName("str")>>)),
     ASub("dict", ATuple(<<AName("str"), AName("int")>>)), ASub("Dict", AName("int")),
     ASub("set", AName("str")), ASub("Tuple", ATuple(<<AName("int"), AName("str")>>)),
     ASub("tuple", AName("int")), ASub("Optional", AName("int")),
     ASub("Union", ATuple(<<AName("int"), AName("str"), AName("int")>>)),
     ASub("Sequence", AName("int")), AOther}

AnnotatedBodies ==
    {<<>>, <<Return(Const("int"))>>, <<Return(Inner)>>,
     <<Assign("x", StrConst(<<"a">>)), Return(Name("x")), Return(Const("float"))>>}

\* the annotation is in the source and, unless it was removed from the
\* function object, in __annotations__
AnnotatedFunctions ==
    {[F0 EXCEPT !.body = b, !.returns = a,
                !.annotations = IF kept
                                THEN DictSet(EmptyDict, "return", ResolveAnnotation(a))
                                ELSE EmptyDict] :
        b \in AnnotatedBodies, a \in Annotations, kept \in BOOLEAN}

\* __annotations__ was given a return entry that the source does not have
SlotTypes == {Prim("int"), Generic("list", <<Prim("str")>>), Any}

SlotFunctions ==
    {[F0 EXCEPT !.body = b, !.args = a,
                !.annotations = DictSet(SeedParameters(a, EmptyDict), "return", t)] :
        b \in AnnotatedBodies, a \in ArgLists, t \in SlotTypes}

\* functions whose source is not available, does not parse, or is no def
SourceFunctions ==
    {[F0 EXCEPT !.body = b, !.source = src] :
        b \in AnnotatedBodies, src \in {"nosource", "unparseable", "notfunction"}}

Functions ==
    ExprFunctions \cup BodyFunctions \cup AnnotatedFunctions \cup SlotFunctions
        \cup SourceFunctions

(***************************************************************************)
(* The state: the function object with its __annotations__, the number of  *)
(* body analyses made so far, the outcome of the last call of              *)
(* get_return_type, the number of stores into the return slot, and for     *)
(* the concurrent callers their position and the value they hold.          *)
(***************************************************************************)
VARIABLES func, annotations, calls, result, writes, fills, pc, local

vars == <<func, annotations, calls, result, writes, fills, pc, local>>

Threads == {1, 2}

Init ==
    /\ func \in Functions
    /\ annotations = func.annotations
    /\ calls = 0
    /\ result = R0
    /\ writes = 0
    /\ fills = 0
    /\ pc = [t \in Threads |-> "idle"]
    /\ local = [t \in Threads |-> R0]

\* a caller asks for the return type
GetReturnType ==
    LET r == GetReturnTypeOf(func, annotations, calls + 1)
    IN  /\ r.analysed => calls < MaxCalls
        /\ result' = r
        /\ calls' = IF r.analysed THEN calls + 1 ELSE calls
        /\ UNCHANGED <<func, annotations, writes, fills, pc, local>>

\* a caller runs fill_inferred_type_hints to its end
FillInferredTypeHints ==
    LET ann == IF AnnotationsMissing(annotations) THEN EmptyDict ELSE annotations
        r == GetReturnTypeOf(func, ann, calls + 1)
    IN  /\ fills < MaxCalls
        /\ fills' = fills + 1
        /\ IF ReturnSlotAbsent(ann)
           THEN /\ r.analysed => calls < MaxCalls
                /\ result' = r
                /\ calls' = IF r.analysed THEN calls + 1 ELSE calls
                /\ IF r.status = "ok"
                   THEN /\ annotations' = DictSet(ann, "return", r.value)
                        /\ writes' = writes + 1
                   ELSE /\ annotations' = ann
                        /\ writes' = writes
                /\ UNCHANGED <<func, pc, local>>
           ELSE /\ annotations' = ann
                /\ UNCHANGED <<func, calls, result, writes, pc, local>>

Next == GetReturnType \/ FillInferredTypeHints

Spec == Init /\ [][Next]_vars

(***************************************************************************)
(* Two threads in fill_inferred_type_hints on the same function.  A thread *)
(* can be preempted between the statements of the function and, inside     *)
(* get_return_type, between the test of line 54 and the analysis.          *)
(***************************************************************************)
ConcurrentFunctions ==
    {[F0 EXCEPT !.body = b, !.args = a,
                !.annotations = SeedParameters(a, EmptyDict)] :
        b \in AnnotatedBodies \cup MoreBodies, a \in ArgLists}
    \cup SourceFunctions

InitConc ==
    /\ func \in ConcurrentFunctions
    /\ annotations = func.annotations
    /\ calls = 0
    /\ result = R0
    /\ writes = 0
    /\ fills = 0
    /\ pc = [t \in Threads |-> "idle"]
    /\ local = [t \in Threads |-> R0]

Goto(t, label) == pc' = [pc EXCEPT ![t] = label]

\* line 346
Check346(t) ==
    /\ pc[t] = "idle"
    /\ Goto(t, IF AnnotationsMissing(annotations) THEN "l347" ELSE "l349")
    /\ fills' = fills + 1
    /\ UNCHANGED <<func, annotations, calls, result, writes, local>>

\* line 347
Assign347(t) ==
    /\ pc[t] = "l347"
    /\ annotations' = EmptyDict
    /\ Goto(t, "l349")
    /\ UNCHANGED <<func, calls, result, writes, fills, local>>

\* line 349
Check349(t) ==
    /\ pc[t] = "l349"
    /\ Goto(t, IF ReturnSlotAbsent(annotations) THEN "l54" ELSE "done")
    /\ UNCHANGED <<func, annotations, calls, result, writes, fills, local>>

\* line 350, the call: lines 54-55 of get_return_type
Check54(t) ==
    /\ pc[t] = "l54"
    /\ IF HasReturnAnnotation(annotations)
       THEN /\ local' = [local EXCEPT ![t] = Returned(annotations["return"])]
            /\ Goto(t, "l350")
       ELSE /\ local' = local
            /\ Goto(t, "l57")
    /\ UNCHANGED <<func, annotations, calls, result, writes, fills>>

\* line 350, the call: lines 57-97 of get_return_type
Infer57(t) ==
    LET r == InferFromSource(func, calls + 1)
    IN  /\ pc[t] = "l57"
        /\ r.analysed => calls < MaxCalls
        /\ calls' = IF r.analysed THEN calls + 1 ELSE calls
        /\ local' = [local EXCEPT ![t] = r]
        /\ Goto(t, IF r.status = "ok" THEN "l350" ELSE "raised")
        /\ UNCHANGED <<func, annotations, result, writes, fills>>

\* line 350, the store
Store350(t) ==
    /\ pc[t] = "l350"
    /\ annotations' = DictSet(annotations, "return", local[t].value)
    /\ writes' = writes + 1
    /\ Goto(t, "done")
    /\ UNCHANGED <<func, calls, result, fills, local>>

NextConc ==
    \E t \in Threads :
        \/ Check346(t)
        \/ Assign347(t)
        \/ Check349(t)
        \/ Check54(t)
        \/ Infer57(t)
        \/ Store350(t)

SpecConc == InitConc /\ [][NextConc]_vars

(***************************************************************************)
(* Properties.                                                             *)
(***************************************************************************)
Called == result.status # "none"

\* the function carried a return annotation when it was handed over: in its
\* __annotations__, or in its source
AnnotatedInSlot == "return" \in DOMAIN func.annotations
AnnotatedInSource ==
    /\ ~AnnotatedInSlot
    /\ func.source = "ok"
    /\ func.returns.kind # "None"

\* C1: for a function with an explicit return annotation get_return_type
\* returns the annotation's type (the entry of __annotations__, or else the
\* resolved annotation of the source), whatever the body holds; the body is
\* not analysed and no symbol table is built
C1_AnnotationWins ==
    Called =>
        /\ AnnotatedInSlot => result = Returned(func.annotations["return"])
        /\ AnnotatedInSource => result = Returned(ResolveAnnotation(func.returns))

\* C1 witness: an annotated function whose body returns a str and a float has
\* been asked for its return type, and the answer is the annotation
C1_Witness ==
    /\ Called
    /\ AnnotatedInSlot \/ AnnotatedInSource
    /\ Len(func.body) = 3
    /\ result.value = Prim("int")

\* C5: once the return slot is present a call of fill_inferred_type_hints (or
\* of get_return_type) changes no annotation and analyses nothing; no call
\* removes or changes another annotation; the slot is stored at most once
C5_FillWriteOnce ==
    [][/\ HasReturnAnnotation(annotations) =>
             /\ annotations' = annotations
             /\ calls' = calls
             /\ writes' = writes
       /\ \A k \in DOMAIN annotations :
             k \in DOMAIN annotations' /\ annotations'[k] = annotations[k]
       /\ DOMAIN annotations' \subseteq DOMAIN annotations \cup {"return"}
       /\ writes' <= 1]_vars

\* C5 witness: fill_inferred_type_hints ran twice on a function that had
\* parameter annotations and no return annotation; the slot was stored once
C5_Witness ==
    /\ fills = 2
    /\ writes = 1
    /\ calls = 1
    /\ ~AnnotatedInSlot
    /\ DOMAIN func.annotations # {}
    /\ HasReturnAnnotation(annotations)

\* C6: when the source of an un-annotated function does not parse,
\* get_return_type yields Unknown (Any) and raises nothing; the only error
\* of a call is the ValueError for a source that is no function definition
C6_ParseFailureIsUnknown ==
    /\ (Called /\ ~AnnotatedInSlot /\ func.source = "unparseable")
           => result = Returned(Any)
    /\ result.status = "raised" => result.error = "ValueError"

\* the function is def f(): return <expr>, and it has been analysed
SingleReturn ==
    /\ Called
    /\ result.analysed
    /\ Len(func.body) = 1
    /\ func.body[1].kind = "Return"

RecordShaped(node) ==
    /\ node.kind = "Dict"
    /\ node.keys # <<>>
    /\ \A i \in 1..Len(node.keys) : IsStrKey(node.keys[i])

KeyStrings(node) == {node.keys[i].str : i \in 1..Len(node.keys)}

FirstIndex(node, k) ==
    CHOOSE i \in 1..Len(node.keys) :
        node.keys[i].str = k /\ \A j \in 1..(i - 1) : node.keys[j].str # k

ExpectedName(path) ==
    SnakeCaseToCapitalCase(func.name) \o ReturnSuffix
        \o JoinAll([i \in 1..Len(path) |-> Capitalize(SanitizeName(path[i]))])

\* t is the type the claim describes for the literal node at nested path
\* path: for a record-shaped literal a Record of that name with one field per
\* key in the order of the keys, every field typed from its value under the
\* path extended by the key; for a dict literal with another key a Mapping
RECURSIVE Conforms(_, _, _, _)
Conforms(node, t, path, site) ==
    IF RecordShaped(node)
    THEN /\ t.tag = "Record"
         /\ t.name = ExpectedName(path)
         /\ Len(t.keys) = Cardinality(KeyStrings(node))
         /\ Range(t.keys) = KeyStrings(node)
         /\ Len(t.args) = Len(t.keys)
         /\ \A i, j \in 1..Len(t.keys) :
                i < j => FirstIndex(node, t.keys[i]) < FirstIndex(node, t.keys[j])
         /\ \A j \in 1..Len(t.keys) :
                LET i == LastIndex(node.keys, t.keys[j])
                IN  Conforms(node.elts[i], t.args[j], Append(path, t.keys[j]),
                             Append(site, i))
    ELSE IF node.kind = "Dict"
    THEN t.tag = "dict"
    ELSE t = InferExprType(node, EmptyDict, func.name, path, site)

\* C3: a non-empty dict literal whose keys are all string constants yields a
\* Record with one field per key in the order of the keys, each typed from
\* its value under the nested path extended by the key, named by the
\* capital-case function name, "Return" and the capitalized sanitized
\* segments of the path; with any other key the result is a Mapping
C3_RecordFromStringKeys ==
    (SingleReturn /\ func.body[1].value.kind = "Dict") =>
        Conforms(func.body[1].value, result.value, <<>>, <<calls, 1>>)

\* C3 witness: a literal with two string keys, one of them holding a nested
\* record literal, has been turned into a Record whose field is a Record
\* named with the key
C3_Witness ==
    /\ SingleReturn
    /\ RecordShaped(func.body[1].value)
    /\ result.value.tag = "Record"
    /\ Len(result.value.keys) = 2
    /\ \E j \in 1..2 :
           /\ result.value.args[j].tag = "Record"
           /\ Len(result.value.args[j].name) > Len(result.value.name)

RECURSIVE RecordsIn(_)
RecordsIn(t) ==
    (IF t.tag = "Record" THEN {t} ELSE {})
        \cup UNION {RecordsIn(t.args[i]) : i \in 1..Len(t.args)}
        \cup UNION {RecordsIn(m) : m \in t.members}

\* the keys of the record-shaped literals that enclose the node at a site
RECURSIVE KeyPathAt(_, _)
KeyPathAt(node, site) ==
    IF site = <<>> THEN <<>>
    ELSE (IF RecordShaped(node) THEN <<node.keys[Head(site)].str>> ELSE <<>>)
             \o KeyPathAt(node.elts[Head(site)], Tail(site))

KeyPathOf(r) == KeyPathAt(func.body[1].value, SubSeq(r.id, 3, Len(r.id)))

\* a key that sanitizing leaves alone and capitalizing changes in its first
\* letter only
CleanKey(k) ==
    /\ k # <<>>
    /\ k[1] \in {"a", "b"}
    /\ \A i \in 2..Len(k) : k[i] \in {"a", "b", "1"}

CleanPath(path) == \A i \in 1..Len(path) : CleanKey(path[i])

\* C4 as claimed: two record literals at different positions of the returned
\* structure get different names
C4_DistinctPositionsDistinctNames ==
    SingleReturn =>
        \A r1, r2 \in RecordsIn(result.value) :
            r1.id # r2.id => r1.name # r2.name

\* C4 amended: two record literals get different names when their nested
\* paths (the keys of the enclosing record literals) differ and every key on
\* them is a letter followed by lower-case letters and digits
C4_DistinctCleanPathsDistinctNames ==
    SingleReturn =>
        \A r1, r2 \in RecordsIn(result.value) :
            (/\ KeyPathOf(r1) # KeyPathOf(r2)
             /\ CleanPath(KeyPathOf(r1))
             /\ CleanPath(KeyPathOf(r2)))
                => r1.name # r2.name

\* C4 witness: records under the key paths a.b and ab have been named, and
\* the names differ
C4_Witness ==
    /\ SingleReturn
    /\ \E r1, r2 \in RecordsIn(result.value) :
           /\ KeyPathOf(r1) = <<<<"a">>, <<"b">>>>
           /\ KeyPathOf(r2) = <<<<"a", "b">>>>
           /\ r1.name # r2.name

\* a type without the identities of the class objects in it
RECURSIVE Structural(_)
Structural(t) ==
    [t EXCEPT !.id = <<>>,
              !.args = [i \in 1..Len(t.args) |-> Structural(t.args[i])],
              !.members = {Structural(m) : m \in t.members}]

\* C2: without a return annotation the result is the collapse of the
\* structurally distinct types of the return statements: Unknown for none,
\* the type itself when all are structurally identical, else a Union of
\* exactly the distinct types without a duplicate
C2_CollapseOfDistinctTypes ==
    (Called /\ result.analysed) =>
        LET ts == Range(result.return_types)
            shapes == {Structural(t) : t \in ts}
        IN  /\ ts = {} => result.value = Any
            /\ Cardinality(shapes) = 1 => result.value \in ts
            /\ Cardinality(shapes) > 1 =>
                   /\ result.value.tag = "Union"
                   /\ {Structural(m) : m \in result.value.members} = shapes
                   /\ Cardinality(result.value.members) = Cardinality(shapes)

\* the statements of the function in textual order, parents before children
RECURSIVE PreOrderFrom(_, _, _)
PreOrderFrom(body, prefix, i) ==
    IF i > Len(body) THEN <<>>
    ELSE <<[node |-> body[i], path |-> Append(prefix, i)]>>
             \o PreOrderFrom(body[i].body, Append(prefix, i), 1)
             \o PreOrderFrom(body, prefix, i + 1)

SourceOrder == PreOrderFrom(func.body, <<>>, 1)

\* the symbol table of a single pass in source order, before statement k
TableBefore(k) ==
    AnalyzeNodes(SubSeq(SourceOrder, 1, k - 1),
                 SeedParameters(func.args, EmptyDict), func.name, calls)

PositionOf(path) == CHOOSE k \in 1..Len(SourceOrder) : SourceOrder[k].path = path

\* C7: the type inferred for a return statement is the one the symbol table
\* gives when a pass in source order reaches it; later assignments do not
\* change it
C7_ReturnSeesTableAtItsPoint ==
    (Called /\ result.analysed) =>
        LET rets == SelectSeq(AstWalk(func), IsReturnWithValue)
        IN  \A i \in 1..Len(rets) :
                result.return_types[i] =
                    InferExprType(rets[i].node.value,
                                  TableBefore(PositionOf(rets[i].path)),
                                  func.name, <<>>, <<calls>> \o rets[i].path)

\* C8: the final symbol table is the one of a pass over the parameters and
\* then the assignments in textual order: for every name the textually last
\* assignment wins, however deep the assignments are nested
C8_LastAssignmentInSourceOrderWins ==
    (Called /\ result.analysed) =>
        result.symbol_table = TableBefore(Len(SourceOrder) + 1)

AllDone == \A t \in Threads : pc[t] = "done"

\* C9: when both threads have finished fill_inferred_type_hints the slot
\* holds the type one sequential get_return_type yields (compared by
\* structure, as that call makes class objects of its own), and the values
\* the two threads stored are equal, so that the second store changes nothing
C9_RaceIsBenign ==
    (AllDone /\ ~AnnotatedInSlot) =>
        /\ HasReturnAnnotation(annotations)
        /\ Structural(annotations["return"]) =
               Structural(GetReturnTypeOf(func, func.annotations, 0).value)
        /\ \A t1, t2 \in Threads :
               (local[t1].status = "ok" /\ local[t2].status = "ok")
                   => local[t1].value = local[t2].value

BinOpFunction ==
    /\ Len(func.body) = 1
    /\ func.body[1].kind = "Return"
    /\ func.body[1].value.kind = "BinOp"

OperandType(i) ==
    InferExprType(func.body[1].value.elts[i], EmptyDict, func.name, <<>>, <<>>)

NumericType == IF OperandType(1) = Prim("float") \/ OperandType(2) = Prim("float")
               THEN Prim("float") ELSE Prim("int")

HasStrOperand == OperandType(1) = Prim("str") \/ OperandType(2) = Prim("str")

\* C10 as claimed: + with a string operand yields str, every other arithmetic
\* operator, % // and ** among them, yields float or int, and every other
\* operator yields Unknown
C10_AllArithmeticNumeric ==
    (Called /\ BinOpFunction) =>
        LET op == func.body[1].value.op
        IN  result.value =
                IF op = "Add" /\ HasStrOperand THEN Prim("str")
                ELSE IF op \in ArithmeticOps \cup {"Mod", "FloorDiv", "Pow"}
                THEN NumericType
                ELSE Any

\* C10 amended: + with a string operand yields str; otherwise + - * / yield
\* float if an operand is float and int if none is; every other operator,
\* % // and ** among them, yields Unknown
C10_FourOperatorsNumeric ==
    (Called /\ BinOpFunction) =>
        LET op == func.body[1].value.op
        IN  /\ (op = "Add" /\ HasStrOperand) => result.value = Prim("str")
            /\ (op \in {"Add", "Sub", "Mult", "Div"} /\ ~(op = "Add" /\ HasStrOperand))
                   => result.value = NumericType
            /\ op \notin {"Add", "Sub", "Mult", "Div"} => result.value = Any

\* C10 witness: the type of a % with a float operand has been inferred, and
\* it is Unknown
C10_Witness ==
    /\ Called
    /\ BinOpFunction
    /\ func.body[1].value.op = "Mod"
    /\ OperandType(1) = Prim("float")
    /\ result.value = Any

====
